---- MODULE Spec2Model ----
(***************************************************************************)
(* A model of the dnd5e-2014 system entry point: the migration gate run    *)
(* by the "ready" hook, and the dnd5e -> dnd5e-2014 compatibility layer    *)
(* installed by the "init" hook.                                           *)
(***************************************************************************)
EXTENDS Integers, Sequences, FiniteSets, TLC

(***************************************************************************)
(* Bounds of the model.                                                    *)
(***************************************************************************)
\* Versions are the totally ordered values 1..MaxVersion.
MaxVersion == 4
\* Each of game.actors, game.scenes and game.items holds 0..MaxDocs documents.
MaxDocs == 1
\* The "ready" event is emitted at most MaxEmits times per process start.
MaxEmits == 2

(***************************************************************************)
(* Versions.                                                               *)
(***************************************************************************)
\* The empty (falsy) value of the systemMigrationVersion setting.
NoVersion == 0
\* The literal "3.0.0" of the compendium folder migration.
ReparentThreshold == 3
\* The value of `game.world.flags.dnd5e-2014?.version`: JavaScript reads it
\* as the subtraction flags.dnd5e - (2014?.version), that is x - undefined,
\* which is NaN whatever the world flags hold.
NaNVersion == 0 - 1

Versions == 1..MaxVersion
StoredVersions == {NoVersion} \cup Versions

VARIABLES
  isGM,              \* game.user.isGM
  setting,           \* the world setting dnd5e-2014.systemMigrationVersion
  worldVersion,      \* game.world.flags["dnd5e-2014"].version (NoVersion: absent)
  actors, scenes, items,  \* game.actors.size, game.scenes.size, game.items.size
  sysVersion,        \* game.system.version
  needsVersion,      \* game.system.flags.needsMigrationVersion
  compatVersion,     \* game.system.flags.compatibleMigrationVersion
  readyRegistered,   \* the Hooks.once("ready") handler has not run yet
  emits,             \* number of "ready" events emitted in this process
  calls,             \* the calls the ready handler made, in order
  gate,              \* what the ready handler saw when it ran
  run,               \* the migration run started by migrations.migrateWorld()
  settingsReg,       \* game.settings: the registered <<namespace, key>> pairs
  settingsMenus,     \* game.settings: the registered menus
  settingsVal,       \* game.settings: the stored value of each <<namespace, key>>
  flags,             \* flags[e][scope]: the flag bag of document e under scope
  worldFlags,        \* game.world.flags, by property name
  sheets,            \* the sheet registry: the registered sheet entries
  initSheets,        \* the init hook has made the system's sheet registrations
  call,              \* the last call made through the compatibility layer
  under,             \* the calls of the original operations that call made
  ret,               \* what that call returned
  lastSet,           \* per key, the last value set under either dnd5e identity
  ops,               \* number of calls made so far
  ref,               \* the reference path given to findCompendiumEntry
  packDocs,          \* the paths fromUuid resolves to a document
  lookups,           \* the paths handed to fromUuid, in order
  found,             \* what findCompendiumEntry returned
  config,            \* the configuration object handed to resolveDynamicReferences
  configIn,          \* that object as it was before the first call
  refPc,             \* what has been done with the reference or the object
  platform,          \* helper variant: the function installed for each shared operation
  helpers,           \* helper variant: the helper functions its init has added
  protoOwner,        \* who defined Document.prototype.getDnd5eFlag
  compatAdded,       \* game.system._dnd5e2014CompatibilityAdded
  helperInit         \* the init hook of the helper variant has run

gateVars == <<isGM, setting, worldVersion, actors, scenes, items, sysVersion,
              needsVersion, compatVersion, readyRegistered, emits, calls,
              gate, run>>

proxyVars == <<settingsReg, settingsMenus, settingsVal, flags, worldFlags,
               sheets, initSheets, call, under, ret, lastSet, ops>>

refVars == <<ref, packDocs, lookups, found, config, configIn, refPc>>

helperVars == <<platform, helpers, protoOwner, compatAdded, helperInit>>

vars == <<gateVars, proxyVars, refVars, helperVars>>

(***************************************************************************)
(* The helper variant of the compatibility layer (src/dnd5e.mjs).          *)
(***************************************************************************)
\* The operations of the platform that modules share with the system.
PlatformOps ==
  {"settings.get", "settings.set", "settings.register",
   "settings.registerMenu", "getFlag", "setFlag", "unsetFlag", "callAll",
   "registerSheet", "unregisterSheet"}

\* The functions init adds to game.dnd5e (game.system) and, when
\* Document.prototype has no getDnd5eFlag yet, to Document.prototype.
SystemHelpers ==
  {"isCompatibleWith", "getSetting", "setSetting", "legacyId",
   "getCSSClasses", "getCSSClassesV2", "getCompendiumReference",
   "findCompendiumEntry"}
FlagHelpers == {"getDnd5eFlag", "setDnd5eFlag", "unsetDnd5eFlag"}

\* The state of the helper variant before its init hook runs, with nothing
\* of it on Document.prototype.
HelperIdle ==
  /\ platform = [op \in PlatformOps |-> "original"]
  /\ helpers = {}
  /\ protoOwner = "none"
  /\ compatAdded = FALSE
  /\ helperInit = FALSE

(***************************************************************************)
(* The compatibility layer: the stores behind the wrapped operations.      *)
(***************************************************************************)
\* The system's own id, the id of the system it was forked from, and the id
\* of an unrelated package.
Canonical == "dnd5e-2014"
Legacy == "dnd5e"
Other == "other-module"
Namespaces == {Legacy, Canonical, Other}
Identities == {Legacy, Canonical}

Keys == {"k1", "k2"}
\* "bad" is a value the flags data model rejects.
Values == {"a", "b", "bad"}
None == "none"

\* Documents: an actor, whose class has a flags data model
\* (_systemFlagsDataModel), and a journal entry, whose class has none.
Entities == {"actor", "journal"}
DocTypes == {"Actor", "Item"}
SheetClasses == {"SheetA", "SheetB"}

EmptyBag == [has |-> FALSE, vals |-> [k \in Keys |-> None]]
NoCall == [op |-> "-", who |-> "-", ns |-> "-", key |-> "-", value |-> "-"]

\* The subtypes of each document class (the item subtypes other than
\* "container" are represented by "weapon").
DocumentTypes(doc) ==
  CASE doc = "Actor" -> {"character", "npc", "vehicle", "group"}
    [] doc = "Item" -> {"weapon", "container"}
    [] doc = "JournalEntry" -> {"base"}
    [] doc = "JournalEntryPage" ->
         {"class", "subclass", "map", "rule", "spells", "text"}
    [] doc = "TokenDocument" -> {"base"}

\* options.types: the subtypes given, every subtype of the document class
\* when none is given (AllTypes).
AllTypes == {}
TypesOf(doc, types) == IF types = AllTypes THEN DocumentTypes(doc) ELSE types

\* One entry of the registry: the sheet `${scope}.${sheetClass.name}` of one
\* subtype of one document class.
SheetEntry(doc, type, scope, cls, default) ==
  [doc |-> doc, type |-> type, scope |-> scope, cls |-> cls,
   default |-> default]
IsSheet(e, doc, types, scope, cls) ==
  /\ e.doc = doc /\ e.type \in TypesOf(doc, types)
  /\ e.scope = scope /\ e.cls = cls

\* The original DocumentSheetConfig.registerSheet: files the sheet under its
\* id for each subtype; makeDefault takes the default from the others.
OriginalRegisterSheet(reg, doc, scope, cls, types, makeDefault) ==
  LET ts == TypesOf(doc, types)
      kept == {e \in reg : ~IsSheet(e, doc, types, scope, cls)}
  IN {IF makeDefault /\ e.doc = doc /\ e.type \in ts
      THEN [e EXCEPT !.default = FALSE] ELSE e : e \in kept}
     \cup {SheetEntry(doc, t, scope, cls, makeDefault) : t \in ts}

\* The original DocumentSheetConfig.unregisterSheet: deletes the sheet with
\* the id `${scope}.${sheetClass.name}` from each subtype, if it is there.
OriginalUnregisterSheet(reg, doc, scope, cls, types) ==
  {e \in reg : ~IsSheet(e, doc, types, scope, cls)}

\* The sheets the platform has registered before init, which init removes.
CoreSheets ==
  {SheetEntry("Actor", t, "core", "ActorSheet", TRUE) :
     t \in DocumentTypes("Actor")}
  \cup {SheetEntry("Item", t, "core", "ItemSheet", TRUE) :
          t \in DocumentTypes("Item")}
  \cup {SheetEntry("TokenDocument", t, "core", "TokenConfig", TRUE) :
          t \in DocumentTypes("TokenDocument")}

\* The state before any call is made through the layer.
ProxyStart ==
  /\ settingsReg = {}
  /\ settingsMenus = {}
  /\ settingsVal = [p \in Namespaces \X Keys |-> None]
  /\ flags = [e \in Entities |-> [n \in Namespaces |-> EmptyBag]]
  /\ worldFlags = [n \in Namespaces |-> None]
  /\ sheets = CoreSheets
  /\ initSheets = FALSE
  /\ call = NoCall
  /\ under = <<>>
  /\ ret = None
  /\ lastSet = [k \in Keys |-> None]
  /\ ops = 0

(***************************************************************************)
(* Compendium references and configuration objects.                        *)
(***************************************************************************)
\* A path is the sequence of its "."-separated segments.
NoPath == <<>>

\* A value of a configuration object: a string (a path), another primitive,
\* or a mapping or sequence, given by its keys and the values under them.
Leaf(kind, str) == [kind |-> kind, str |-> str, keys |-> <<>>, kids |-> <<>>]
Branch(kind, keys, kids) ==
  [kind |-> kind, str |-> NoPath, keys |-> keys, kids |-> kids]
EmptyTree == Branch("map", <<>>, <<>>)

\* A string is the sequence of its "."-separated segments; no segment ends in
\* "Compendium", so the patterns below match whole segments only.
MaxPathLen == 4
Segments == {"Compendium", Legacy, Canonical, "pack"}
RECURSIVE PathsOfLen(_)
PathsOfLen(n) ==
  IF n = 0 THEN {<<>>}
  ELSE {Append(q, sg) : q \in PathsOfLen(n - 1), sg \in Segments}
Paths == UNION {PathsOfLen(n) : n \in 1..MaxPathLen}

\* game.system.id of the running system.
SystemId == Canonical

\* value.startsWith(`Compendium.${id}.`)
StartsWithCompendium(path, id) ==
  Len(path) >= 3 /\ path[1] = "Compendium" /\ path[2] = id

\* value.replace(`Compendium.${from}.`, `Compendium.${to}.`): the first
\* occurrence of the pattern, wherever it is, or none.
ReplaceCompendium(path, from, to) ==
  LET at == {i \in 1..(Len(path) - 2) :
               path[i] = "Compendium" /\ path[i + 1] = from}
  IN IF at = {} THEN path
     ELSE LET first == CHOOSE i \in at : \A j \in at : i <= j
          IN [path EXCEPT ![first + 1] = to]

\* A variant that converts in both directions, whatever the running system.
getCompendiumReference_Swaps(originalPath) ==
  IF StartsWithCompendium(originalPath, Legacy)
  THEN ReplaceCompendium(originalPath, Legacy, Canonical)
  ELSE IF StartsWithCompendium(originalPath, Canonical)
       THEN ReplaceCompendium(originalPath, Canonical, Legacy)
  ELSE originalPath

\* game.dnd5e.getCompendiumReference(originalPath)
getCompendiumReference(originalPath) ==
  IF StartsWithCompendium(originalPath, SystemId) THEN originalPath
  ELSE IF StartsWithCompendium(originalPath, Legacy)
       THEN ReplaceCompendium(originalPath, Legacy, SystemId)
  ELSE IF StartsWithCompendium(originalPath, Canonical)
       THEN ReplaceCompendium(originalPath, Canonical, SystemId)
  ELSE originalPath

\* fromUuid(uuid): the document stored under the path, null when there is
\* none (a document is identified by the path it is stored under).
fromUuid(docs, uuid) == IF uuid \in docs THEN uuid ELSE NoPath

\* A variant that gives up after the lookup in the current system.
findCompendiumEntry_NoFallback(docs, referencePath) ==
  LET currentSystemPath == getCompendiumReference(referencePath)
  IN [lookups |-> <<currentSystemPath>>,
      document |-> fromUuid(docs, currentSystemPath)]

\* game.dnd5e.findCompendiumEntry(referencePath): the paths it looks up, in
\* order, and the document it returns.
findCompendiumEntry(docs, referencePath) ==
  LET currentSystemPath == getCompendiumReference(referencePath)
      document == fromUuid(docs, currentSystemPath)
      fallbackPath ==
        IF StartsWithCompendium(referencePath, Canonical)
        THEN ReplaceCompendium(referencePath, Canonical, Legacy)
        ELSE ReplaceCompendium(referencePath, Legacy, Canonical)
  IN IF document # NoPath
     THEN [lookups |-> <<currentSystemPath>>, document |-> document]
     ELSE [lookups |-> <<currentSystemPath, fallbackPath>>,
           document |-> fromUuid(docs, fallbackPath)]

\* The documents the compendium packs of the two systems may hold, and how
\* many of them exist at once.
MaxPackDocs == 2
PackPaths == {<<"Compendium", id, sg>> : id \in Identities, sg \in Segments}

\* The reference and the documents one lookup is made on.
LookupInputs ==
  /\ ref \in Paths
  /\ packDocs \in {d \in SUBSET PackPaths : Cardinality(d) <= MaxPackDocs}
  /\ lookups = <<>>
  /\ found = NoPath
  /\ config = EmptyTree
  /\ configIn = EmptyTree
  /\ refPc = "idle"

\* A variant that takes a string for a reference when the pattern occurs
\* anywhere in it.
IsLegacyReference_Anywhere(value) ==
  /\ value.kind = "string"
  /\ ReplaceCompendium(value.str, Legacy, SystemId) # value.str

\* typeof value === 'string' && value.startsWith('Compendium.dnd5e.')
IsLegacyReference(value) ==
  value.kind = "string" /\ StartsWithCompendium(value.str, Legacy)

\* A variant that does not descend into nested objects.
IsObject_Never(value) == FALSE

\* typeof value === 'object' && value !== null
IsObject(value) == value.kind \in {"map", "seq"}

\* resolveDynamicReferences(obj): the object after the call.
RECURSIVE resolveDynamicReferences(_)
resolveDynamicReferences(obj) ==
  [obj EXCEPT !.kids =
     [i \in 1..Len(obj.kids) |->
        LET value == obj.kids[i]
        IN IF IsLegacyReference(value)
           THEN [value EXCEPT
                   !.str = ReplaceCompendium(value.str, Legacy, SystemId)]
           ELSE IF IsObject(value) THEN resolveDynamicReferences(value)
           ELSE value]]

\* The strings of the configuration objects: a legacy reference, a canonical
\* one, the pattern past the start, the prefix without its final ".", and a
\* legacy reference that holds the pattern twice.
ConfigStrings ==
  {<<"Compendium", Legacy, "pack">>,
   <<"Compendium", Canonical, "pack">>,
   <<"pack", "Compendium", Legacy, "pack">>,
   <<"Compendium", Legacy>>,
   <<"Compendium", Legacy, "Compendium", Legacy>>}
LeafValues ==
  {Leaf("string", str) : str \in ConfigStrings}
  \cup {Leaf("number", NoPath), Leaf("null", NoPath)}

\* A mapping holds its values under "a", "b"; a sequence under "0", "1".
MakeNode(kind, vals) ==
  Branch(kind,
         SubSeq(IF kind = "map" THEN <<"a", "b">> ELSE <<"0", "1">>,
                1, Len(vals)),
         vals)

\* The objects of nesting depth at most d, with up to two values: the first
\* a primitive or a one-value mapping, the second a primitive or an object
\* of depth at most d - 1.
MaxDepth == 2
FlatNodes == {MakeNode("map", <<leaf>>) : leaf \in LeafValues}
RECURSIVE ConfigTrees(_)
ConfigTrees(d) ==
  LET first == LeafValues \cup (IF d > 1 THEN FlatNodes ELSE {})
      second == LeafValues \cup (IF d > 1 THEN ConfigTrees(d - 1) ELSE {})
  IN {MakeNode(kind, vals) :
        kind \in {"map", "seq"},
        vals \in {<<>>} \cup {<<y>> : y \in second}
                 \cup {<<x, y>> : x \in first, y \in second}}

\* The object one rewriting is made on.
RewriteInputs ==
  /\ ref = NoPath
  /\ packDocs = {}
  /\ lookups = <<>>
  /\ found = NoPath
  /\ config \in ConfigTrees(MaxDepth)
  /\ configIn = config
  /\ refPc = "idle"

\* The state while neither a reference nor an object is being processed.
RefIdle ==
  /\ ref = NoPath
  /\ packDocs = {}
  /\ lookups = <<>>
  /\ found = NoPath
  /\ config = EmptyTree
  /\ configIn = EmptyTree
  /\ refPc = "idle"

(***************************************************************************)
(* The ready handler.                                                      *)
(***************************************************************************)
\* JavaScript truthiness of a version value: "" and NaN are falsy.
Truthy(v) == v # NoVersion /\ v # NaNVersion

\* foundry.utils.isNewerVersion(v1, v0) as the handler uses it: v1 is always a
\* well-formed version; against "NaN" the part-wise comparison ends on the
\* string comparison "3" > "NaN", which is false.
isNewerVersion(v1, v0) == IF v0 = NaNVersion THEN FALSE ELSE v1 > v0

\* const cv = game.settings.get(...) || game.world.flags.dnd5e-2014?.version
GateCv(s, w) == IF Truthy(s) THEN s ELSE NaNVersion

\* const totalDocuments = game.actors.size + game.scenes.size + game.items.size
TotalDocuments(a, s, i) == a + s + i

\* A variant that takes every world without a stored version for a fresh
\* install, whatever it holds.
IsFreshInstall_IgnoresDocuments(cv, total) == ~Truthy(cv)

\* A variant that stamps every world without documents, whatever version
\* is stored.
IsFreshInstall_AnyEmptyWorld(cv, total) == total = 0

\* if ( !cv && totalDocuments === 0 ) return game.settings.set(...)
IsFreshInstall(cv, total) == ~Truthy(cv) /\ total = 0

\* A variant that returns only when the stored version is strictly newer
\* than the target version.
IsUpToDate_Strict(cv, needs) == Truthy(cv) /\ isNewerVersion(cv, needs)

\* if ( cv && !isNewerVersion(needsMigrationVersion, cv) ) return
IsUpToDate(cv, needs) == Truthy(cv) /\ ~isNewerVersion(needs, cv)

\* A variant that relocates the compendiums on every migration.
NeedsReparent_Always(cv) == TRUE

\* if ( isNewerVersion("3.0.0", cv) ) migrations.reparentCompendiums(...)
NeedsReparent(cv) == isNewerVersion(ReparentThreshold, cv)

\* A variant that also warns on a stored version equal to the minimum
\* migratable version.
IsTooOld_OrEqual(cv, compat) == Truthy(cv) /\ ~isNewerVersion(cv, compat)

\* if ( cv && isNewerVersion(compatibleMigrationVersion, cv) ) ui.notifications.error(...)
IsTooOld(cv, compat) == Truthy(cv) /\ isNewerVersion(compat, cv)

\* A variant that returns after the too-old warning instead of migrating.
MigrateCalls_Blocked(cv, compat) ==
  (IF NeedsReparent(cv) THEN <<"reparentCompendiums">> ELSE <<>>)
  \o (IF IsTooOld(cv, compat) THEN <<"notifications.error">>
      ELSE <<"migrateWorld">>)

\* The calls of the part of the handler that follows the two early returns.
MigrateCalls(cv, compat) ==
  (IF NeedsReparent(cv) THEN <<"reparentCompendiums">> ELSE <<>>)
  \o (IF IsTooOld(cv, compat) THEN <<"notifications.error">> ELSE <<>>)
  \o <<"migrateWorld">>

\* A variant whose fresh-install branch stamps the version without returning.
GateCalls_StampFallsThrough(cv, total, needs, compat) ==
  <<"settings.get">>
  \o (IF IsFreshInstall(cv, total)
      THEN <<"settings.set">> \o MigrateCalls(cv, compat)
      ELSE IF IsUpToDate(cv, needs) THEN <<>>
      ELSE MigrateCalls(cv, compat))

\* The calls of the gate, reached by the privileged user only.
GateCalls(cv, total, needs, compat) ==
  <<"settings.get">>
  \o (IF IsFreshInstall(cv, total) THEN <<"settings.set">>
      ELSE IF IsUpToDate(cv, needs) THEN <<>>
      ELSE MigrateCalls(cv, compat))

\* A variant without the isGM check.
ReadyCalls_AnyUser(gm, cv, total, needs, compat) ==
  <<"Hooks.on">> \o GateCalls(cv, total, needs, compat)

\* The calls of the whole handler: the hotbarDrop registration, then
\* if ( !game.user.isGM ) return, then the gate.
ReadyCalls(gm, cv, total, needs, compat) ==
  <<"Hooks.on">> \o (IF gm THEN GateCalls(cv, total, needs, compat) ELSE <<>>)

Has(seq, c) == \E n \in 1..Len(seq) : seq[n] = c
Count(seq, c) == Cardinality({n \in 1..Len(seq) : seq[n] = c})

NoGate == [ran |-> FALSE, cv |-> NaNVersion, stored |-> NoVersion, total |-> 0]
IdleRun == [status |-> "idle", initial |-> NoVersion, done |-> 0]

\* migrations.migrateWorld(): the run starts from the stored version.
StartRun(s) == [status |-> "running", initial |-> s, done |-> 0]

GateInit ==
  /\ isGM \in BOOLEAN
  /\ setting \in StoredVersions
  /\ worldVersion \in StoredVersions
  /\ actors \in 0..MaxDocs
  /\ scenes \in 0..MaxDocs
  /\ items \in 0..MaxDocs
  /\ sysVersion \in Versions
  /\ needsVersion \in Versions
  /\ compatVersion \in Versions
  /\ needsVersion <= sysVersion
  /\ readyRegistered = TRUE
  /\ emits = 0
  /\ calls = <<>>
  /\ gate = NoGate
  /\ run = IdleRun
  /\ ProxyStart
  /\ RefIdle
  /\ HelperIdle

\* A variant registered with Hooks.on: every "ready" event runs the handler.
Ready_OnEveryEmit ==
  /\ emits < MaxEmits
  /\ LET cv == GateCv(setting, worldVersion)
         total == TotalDocuments(actors, scenes, items)
         cs == ReadyCalls(isGM, cv, total, needsVersion, compatVersion)
     IN /\ calls' = cs
        /\ gate' = [ran |-> TRUE, cv |-> cv, stored |-> setting, total |-> total]
        /\ setting' = IF Has(cs, "settings.set") THEN sysVersion ELSE setting
        /\ run' = IF Has(cs, "migrateWorld") THEN StartRun(setting) ELSE run
  /\ readyRegistered' = FALSE
  /\ emits' = emits + 1
  /\ UNCHANGED <<isGM, worldVersion, actors, scenes, items, sysVersion,
                 needsVersion, compatVersion>>
  /\ UNCHANGED <<proxyVars, refVars, helperVars>>

\* Hooks.once("ready", ...): the first "ready" event runs the handler.
Ready ==
  /\ readyRegistered
  /\ emits < MaxEmits
  /\ LET cv == GateCv(setting, worldVersion)
         total == TotalDocuments(actors, scenes, items)
         cs == ReadyCalls(isGM, cv, total, needsVersion, compatVersion)
     IN /\ calls' = cs
        /\ gate' = [ran |-> TRUE, cv |-> cv, stored |-> setting, total |-> total]
        /\ setting' = IF Has(cs, "settings.set") THEN sysVersion ELSE setting
        /\ run' = IF Has(cs, "migrateWorld") THEN StartRun(setting) ELSE run
  /\ readyRegistered' = FALSE
  /\ emits' = emits + 1
  /\ UNCHANGED <<isGM, worldVersion, actors, scenes, items, sysVersion,
                 needsVersion, compatVersion>>
  /\ UNCHANGED <<proxyVars, refVars, helperVars>>

\* A later "ready" event finds no handler: Hooks.once removed it.
ReadyAgain ==
  /\ ~readyRegistered
  /\ emits < MaxEmits
  /\ emits' = emits + 1
  /\ UNCHANGED <<isGM, setting, worldVersion, actors, scenes, items,
                 sysVersion, needsVersion, compatVersion, readyRegistered,
                 calls, gate, run>>
  /\ UNCHANGED <<proxyVars, refVars, helperVars>>

(***************************************************************************)
(* The migration runner: an ordered sequence of steps v -> v+1 from the    *)
(* stored version to the target version, checkpointed after each step.     *)
(***************************************************************************)
StepTarget(initial, n) == initial + n

\* A variant that commits the stored version once, after the last step.
StepOk_CommitAtEnd ==
  /\ run.status = "running"
  /\ setting < needsVersion
  /\ LET target == StepTarget(run.initial, run.done + 1)
     IN /\ setting' = IF target >= needsVersion THEN target ELSE setting
        /\ run' = [run EXCEPT !.done = @ + 1,
                              !.status = IF target >= needsVersion
                                         THEN "done" ELSE "running"]
  /\ UNCHANGED <<isGM, worldVersion, actors, scenes, items, sysVersion,
                 needsVersion, compatVersion, readyRegistered, emits, calls,
                 gate>>
  /\ UNCHANGED <<proxyVars, refVars, helperVars>>

\* The next step succeeds: the stored version is checkpointed to its target.
StepOk ==
  /\ run.status = "running"
  /\ setting < needsVersion
  /\ setting' = StepTarget(run.initial, run.done + 1)
  /\ run' = [run EXCEPT !.done = @ + 1,
                        !.status = IF setting' >= needsVersion
                                   THEN "done" ELSE "running"]
  /\ UNCHANGED <<isGM, worldVersion, actors, scenes, items, sysVersion,
                 needsVersion, compatVersion, readyRegistered, emits, calls,
                 gate>>
  /\ UNCHANGED <<proxyVars, refVars, helperVars>>

\* The next step fails: the run halts.
StepFail ==
  /\ run.status = "running"
  /\ setting < needsVersion
  /\ run' = [run EXCEPT !.status = "failed"]
  /\ UNCHANGED <<isGM, setting, worldVersion, actors, scenes, items,
                 sysVersion, needsVersion, compatVersion, readyRegistered,
                 emits, calls, gate>>
  /\ UNCHANGED <<proxyVars, refVars, helperVars>>

\* The process ends and a new one starts on the same world.
Restart ==
  /\ ~readyRegistered
  /\ isGM' \in BOOLEAN
  /\ readyRegistered' = TRUE
  /\ emits' = 0
  /\ calls' = <<>>
  /\ gate' = NoGate
  /\ run' = IdleRun
  /\ UNCHANGED <<setting, worldVersion, actors, scenes, items, sysVersion,
                 needsVersion, compatVersion>>
  /\ UNCHANGED <<proxyVars, refVars, helperVars>>

GateNext == Ready \/ ReadyAgain \/ StepOk \/ StepFail \/ Restart

SpecGate == GateInit /\ [][GateNext]_vars

(***************************************************************************)
(* The compatibility layer: the wrapped operations.                        *)
(***************************************************************************)
\* The number of calls made through the layer in one behaviour.
MaxOps == 2

\* Variants of the wrappers' redirection: none, and one that spares no scope.
SettingsGetModule_NoRedirect(module) == module
SetFlagScope_NoRedirect(scope) == scope
GetFlagScope_Always(scope) == Canonical

\* The namespace each wrapper hands to the original operation:
\* if (module === "dnd5e") module = "dnd5e-2014";
SettingsGetModule(module) == IF module = Legacy THEN Canonical ELSE module
SettingsSetModule(module) == IF module = Legacy THEN Canonical ELSE module
RegisterModule(module) == IF module = Legacy THEN Canonical ELSE module
RegisterMenuModule(module) == IF module = Legacy THEN Canonical ELSE module
GetFlagScope(scope) == IF scope = Legacy THEN Canonical ELSE scope
SetFlagScope(scope) == IF scope = Legacy THEN Canonical ELSE scope
UnsetFlagScope(scope) == IF scope = Legacy THEN Canonical ELSE scope
\* A variant whose sheet registration files a sheet under the scope given.
RegisterSheetScope_NoRedirect(scope) == scope

RegisterSheetScope(scope) == IF scope = Legacy THEN Canonical ELSE scope
ActorsRegisterSheetScope(scope) == IF scope = Legacy THEN Canonical ELSE scope

\* The 'dnd5e' accessor of game.world.flags reads and writes 'dnd5e-2014'.
WorldFlagsProperty(name) == IF name = Legacy THEN Canonical ELSE name

\* originalGet: the value of a registered setting; an unregistered key throws.
OriginalGet(module, key) ==
  IF <<module, key>> \in settingsReg THEN settingsVal[<<module, key>>]
  ELSE "error"

\* originalSet: stores and returns the value of a registered setting.
OriginalSet(module, key, value) ==
  IF <<module, key>> \in settingsReg THEN value ELSE "error"

\* game.settings.get as the layer leaves it.
WrappedGet(module, key) == OriginalGet(SettingsGetModule(module), key)

\* A call of an original operation, and a call made through the layer.
UnderCall(op, ns, key, value, r) ==
  [op |-> op, ns |-> ns, key |-> key, value |-> value, ret |-> r]
LayerCall(op, who, ns, key, value) ==
  [op |-> op, who |-> who, ns |-> ns, key |-> key, value |-> value]

\* get _systemFlagsDataModel(): null unless the document class overrides it.
HasFlagsModel(e) == e = "actor"

\* if ( (scope === "dnd5e-2014") && this._systemFlagsDataModel )
MixinValidates(e, scope) == scope = Canonical /\ HasFlagsModel(e)

\* Whether the flags data model accepts the change { [key]: value }.
SchemaAccepts(key, value) == value # "bad"

\* A variant that hands the change to update as it is, without the dry run.
FlagDiff_WholeChange(bag, key, value) == {<<key, value>>}

\* updateSource(changes, { dryRun: true }): the fields the change alters; with
\* no flags yet, the object of a new data model built from the change.
FlagDiff(bag, key, value) ==
  IF bag.has /\ bag.vals[key] = value THEN {} ELSE {<<key, value>>}

\* this.update({ flags: { [scope]: diff } })
ApplyUpdate(bag, diff) ==
  [has |-> TRUE,
   vals |-> [k \in Keys |-> IF \E d \in diff : d[1] = k
                            THEN (CHOOSE d \in diff : d[1] = k)[2]
                            ELSE bag.vals[k]]]

\* One more call is made through the layer; the gate is not involved.
Invoke(c, u, r) ==
  /\ ops < MaxOps
  /\ ops' = ops + 1
  /\ call' = c
  /\ under' = u
  /\ ret' = r
  /\ UNCHANGED <<gateVars, refVars, helperVars>>

Step(c, u, r) == Invoke(c, u, r) /\ UNCHANGED initSheets

\* game.settings.get(module, key)
SettingsGet(module, key) ==
  LET m == SettingsGetModule(module)
      r == OriginalGet(m, key)
  IN /\ Step(LayerCall("settings.get", "game", module, key, "-"),
             <<UnderCall("settings.get", m, key, "-", r)>>, r)
     /\ UNCHANGED <<settingsReg, settingsMenus, settingsVal, flags,
                    worldFlags, sheets, lastSet>>

\* game.settings.set(module, key, value)
SettingsSet(module, key, value) ==
  LET m == SettingsSetModule(module)
      r == OriginalSet(m, key, value)
  IN /\ Step(LayerCall("settings.set", "game", module, key, value),
             <<UnderCall("settings.set", m, key, value, r)>>, r)
     /\ settingsVal' = IF r = "error" THEN settingsVal
                       ELSE [settingsVal EXCEPT ![<<m, key>>] = value]
     /\ lastSet' = IF r # "error" /\ module \in Identities
                   THEN [lastSet EXCEPT ![key] = value] ELSE lastSet
     /\ UNCHANGED <<settingsReg, settingsMenus, flags, worldFlags, sheets>>

\* game.settings.register(module, key, data)
SettingsRegister(module, key) ==
  LET m == RegisterModule(module)
  IN /\ Step(LayerCall("settings.register", "game", module, key, "-"),
             <<UnderCall("settings.register", m, key, "-", None)>>, None)
     /\ settingsReg' = settingsReg \cup {<<m, key>>}
     /\ UNCHANGED <<settingsMenus, settingsVal, flags, worldFlags, sheets,
                    lastSet>>

\* game.settings.registerMenu(module, key, data)
SettingsRegisterMenu(module, key) ==
  LET m == RegisterMenuModule(module)
  IN /\ Step(LayerCall("settings.registerMenu", "game", module, key, "-"),
             <<UnderCall("settings.registerMenu", m, key, "-", None)>>, None)
     /\ settingsMenus' = settingsMenus \cup {<<m, key>>}
     /\ UNCHANGED <<settingsReg, settingsVal, flags, worldFlags, sheets,
                    lastSet>>

\* document.getFlag(scope, key)
GetFlag(e, scope, key) ==
  LET sc == GetFlagScope(scope)
      r == flags[e][sc].vals[key]
  IN /\ Step(LayerCall("getFlag", e, scope, key, "-"),
             <<UnderCall("getFlag", sc, key, "-", r)>>, r)
     /\ UNCHANGED <<settingsReg, settingsMenus, settingsVal, flags,
                    worldFlags, sheets, lastSet>>

\* A variant that calls update before the change is validated.
SetFlagValidated_UpdateFirst(e, key, value) ==
  LET diff == {<<key, value>>}
      c == LayerCall("setFlag", e, Canonical, key, value)
  IN /\ Step(c, <<UnderCall("update", Canonical, key, value, "ok")>>,
             IF SchemaAccepts(key, value) THEN "ok" ELSE "error")
     /\ flags' = [flags EXCEPT ![e][Canonical] = ApplyUpdate(@, diff)]

\* document.setFlag(scope, key, value) with the flags data model in charge:
\* the change is validated, which throws before update is called, and the
\* diff alone is written.
SetFlagValidated(e, key, value) ==
  LET diff == FlagDiff(flags[e][Canonical], key, value)
      c == LayerCall("setFlag", e, Canonical, key, value)
  IN IF SchemaAccepts(key, value)
     THEN /\ Step(c, <<UnderCall("update", Canonical, key,
                                 IF diff = {} THEN None ELSE value, "ok")>>,
                  "ok")
          /\ flags' = [flags EXCEPT ![e][Canonical] = ApplyUpdate(@, diff)]
     ELSE /\ Step(c, <<>>, "error")
          /\ flags' = flags

\* document.setFlag(scope, key, value) through super.setFlag: the wrapper of
\* Document.prototype.setFlag redirects the scope and calls the original.
SetFlagPlain(e, scope, key, value) ==
  LET sc == SetFlagScope(scope)
  IN /\ Step(LayerCall("setFlag", e, scope, key, value),
             <<UnderCall("setFlag", sc, key, value, "ok")>>, "ok")
     /\ flags' = [flags EXCEPT ![e][sc] = ApplyUpdate(@, {<<key, value>>})]

\* document.setFlag(scope, key, value): the mixin's override runs first, on
\* the scope as the caller wrote it.
SetFlag(e, scope, key, value) ==
  /\ IF MixinValidates(e, scope) THEN SetFlagValidated(e, key, value)
     ELSE SetFlagPlain(e, scope, key, value)
  /\ UNCHANGED <<settingsReg, settingsMenus, settingsVal, worldFlags, sheets,
                 lastSet>>

\* document.unsetFlag(scope, key)
UnsetFlag(e, scope, key) ==
  LET sc == UnsetFlagScope(scope)
  IN /\ Step(LayerCall("unsetFlag", e, scope, key, "-"),
             <<UnderCall("unsetFlag", sc, key, "-", "ok")>>, "ok")
     /\ flags' = [flags EXCEPT ![e][sc].vals[key] = None]
     /\ UNCHANGED <<settingsReg, settingsMenus, settingsVal, worldFlags,
                    sheets, lastSet>>

\* game.world.flags[name]
WorldFlagsRead(name) ==
  LET n == WorldFlagsProperty(name)
  IN /\ Step(LayerCall("world.flags.get", "world", name, "-", "-"),
             <<UnderCall("world.flags.get", n, "-", "-", worldFlags[n])>>,
             worldFlags[n])
     /\ UNCHANGED <<settingsReg, settingsMenus, settingsVal, flags,
                    worldFlags, sheets, lastSet>>

\* game.world.flags[name] = value
WorldFlagsWrite(name, value) ==
  LET n == WorldFlagsProperty(name)
  IN /\ Step(LayerCall("world.flags.set", "world", name, "-", value),
             <<UnderCall("world.flags.set", n, "-", value, value)>>, value)
     /\ worldFlags' = [worldFlags EXCEPT ![n] = value]
     /\ UNCHANGED <<settingsReg, settingsMenus, settingsVal, flags, sheets,
                    lastSet>>

\* DocumentSheetConfig.registerSheet(documentClass, scope, sheetClass, options)
RegisterSheet(doc, scope, sheet, makeDefault) ==
  LET sc == RegisterSheetScope(scope)
  IN /\ Step(LayerCall("registerSheet", "DocumentSheetConfig", scope, doc,
                       sheet),
             <<UnderCall("registerSheet", sc, doc, sheet, None)>>, None)
     /\ sheets' = OriginalRegisterSheet(sheets, doc, sc, sheet, AllTypes,
                                        makeDefault)
     /\ UNCHANGED <<settingsReg, settingsMenus, settingsVal, flags,
                    worldFlags, lastSet>>

\* Actors.registerSheet(scope, sheetClass, options): the original registers
\* the sheet for the Actor document through DocumentSheetConfig.registerSheet.
ActorsRegisterSheet(scope, sheet) ==
  LET sc == ActorsRegisterSheetScope(scope)
      sc2 == RegisterSheetScope(sc)
  IN /\ Step(LayerCall("registerSheet", "Actors", scope, "Actor", sheet),
             <<UnderCall("Actors.registerSheet", sc, "Actor", sheet, None),
               UnderCall("registerSheet", sc2, "Actor", sheet, None)>>, None)
     /\ sheets' = OriginalRegisterSheet(sheets, "Actor", sc2, sheet, AllTypes,
                                        FALSE)
     /\ UNCHANGED <<settingsReg, settingsMenus, settingsVal, flags,
                    worldFlags, lastSet>>

\* DocumentSheetConfig.unregisterSheet(documentClass, scope, sheetClass): the
\* layer installs nothing over it, so the original gets the scope as given.
UnregisterSheet(doc, scope, sheet) ==
  /\ Step(LayerCall("unregisterSheet", "DocumentSheetConfig", scope, doc,
                    sheet),
          <<UnderCall("unregisterSheet", scope, doc, sheet, None)>>, None)
  /\ sheets' = OriginalUnregisterSheet(sheets, doc, scope, sheet, AllTypes)
  /\ UNCHANGED <<settingsReg, settingsMenus, settingsVal, flags,
                 worldFlags, lastSet>>

\* One call of init's sheet registration sequence.
SheetOp(kind, via, doc, scope, cls, types, makeDefault) ==
  [kind |-> kind, via |-> via, doc |-> doc, scope |-> scope, cls |-> cls,
   types |-> types, makeDefault |-> makeDefault]
Reg(via, doc, scope, cls, types, makeDefault) ==
  SheetOp("register", via, doc, scope, cls, types, makeDefault)
Unreg(via, doc, scope, cls, types) ==
  SheetOp("unregister", via, doc, scope, cls, types, FALSE)

\* A variant of the sequence that leaves ItemSheet5e registered for the
\* container subtype.
InitSheetOps_NoContainerUnregister ==
  <<Unreg("Actors", "Actor", "core", "ActorSheet", AllTypes),
    Reg("Actors", "Actor", Canonical, "ActorSheet5eCharacter",
        {"character"}, FALSE),
    Reg("DocumentSheetConfig", "Actor", Legacy, "ActorSheet5eCharacter2",
        {"character"}, TRUE),
    Reg("Actors", "Actor", Canonical, "ActorSheet5eNPC", {"npc"}, TRUE),
    Reg("DocumentSheetConfig", "Actor", Legacy, "ActorSheet5eNPC2",
        {"npc"}, TRUE),
    Reg("Actors", "Actor", Canonical, "ActorSheet5eVehicle", {"vehicle"},
        TRUE),
    Reg("Actors", "Actor", Canonical, "GroupActorSheet", {"group"}, TRUE),
    Unreg("DocumentSheetConfig", "Item", "core", "ItemSheet", AllTypes),
    Reg("DocumentSheetConfig", "Item", Legacy, "ItemSheet5e", AllTypes, TRUE),
    Reg("DocumentSheetConfig", "Item", Legacy, "ContainerSheet",
        {"container"}, TRUE),
    Reg("DocumentSheetConfig", "JournalEntry", Legacy, "JournalSheet5e",
        AllTypes, TRUE),
    Reg("DocumentSheetConfig", "JournalEntryPage", Legacy,
        "JournalClassPageSheet", {"class", "subclass"}, FALSE),
    Reg("DocumentSheetConfig", "JournalEntryPage", Legacy,
        "JournalMapLocationPageSheet", {"map"}, FALSE),
    Reg("DocumentSheetConfig", "JournalEntryPage", Legacy,
        "JournalRulePageSheet", {"rule"}, FALSE),
    Reg("DocumentSheetConfig", "JournalEntryPage", Legacy,
        "JournalSpellListPageSheet", {"spells"}, FALSE),
    Unreg("DocumentSheetConfig", "TokenDocument", "core", "TokenConfig",
          AllTypes),
    Reg("DocumentSheetConfig", "TokenDocument", Legacy, "TokenConfig5e",
        AllTypes, FALSE)>>

\* The sheet registration sequence of the init hook, in the order written.
InitSheetOps ==
  <<Unreg("Actors", "Actor", "core", "ActorSheet", AllTypes),
    Reg("Actors", "Actor", Canonical, "ActorSheet5eCharacter",
        {"character"}, FALSE),
    Reg("DocumentSheetConfig", "Actor", Legacy, "ActorSheet5eCharacter2",
        {"character"}, TRUE),
    Reg("Actors", "Actor", Canonical, "ActorSheet5eNPC", {"npc"}, TRUE),
    Reg("DocumentSheetConfig", "Actor", Legacy, "ActorSheet5eNPC2",
        {"npc"}, TRUE),
    Reg("Actors", "Actor", Canonical, "ActorSheet5eVehicle", {"vehicle"},
        TRUE),
    Reg("Actors", "Actor", Canonical, "GroupActorSheet", {"group"}, TRUE),
    Unreg("DocumentSheetConfig", "Item", "core", "ItemSheet", AllTypes),
    Reg("DocumentSheetConfig", "Item", Legacy, "ItemSheet5e", AllTypes, TRUE),
    Unreg("DocumentSheetConfig", "Item", Canonical, "ItemSheet5e",
          {"container"}),
    Reg("DocumentSheetConfig", "Item", Legacy, "ContainerSheet",
        {"container"}, TRUE),
    Reg("DocumentSheetConfig", "JournalEntry", Legacy, "JournalSheet5e",
        AllTypes, TRUE),
    Reg("DocumentSheetConfig", "JournalEntryPage", Legacy,
        "JournalClassPageSheet", {"class", "subclass"}, FALSE),
    Reg("DocumentSheetConfig", "JournalEntryPage", Legacy,
        "JournalMapLocationPageSheet", {"map"}, FALSE),
    Reg("DocumentSheetConfig", "JournalEntryPage", Legacy,
        "JournalRulePageSheet", {"rule"}, FALSE),
    Reg("DocumentSheetConfig", "JournalEntryPage", Legacy,
        "JournalSpellListPageSheet", {"spells"}, FALSE),
    Unreg("DocumentSheetConfig", "TokenDocument", "core", "TokenConfig",
          AllTypes),
    Reg("DocumentSheetConfig", "TokenDocument", Legacy, "TokenConfig5e",
        AllTypes, FALSE)>>

\* The scope with which one call of the sequence reaches the original
\* DocumentSheetConfig operation: Actors.registerSheet goes through
\* DocumentSheetConfig.registerSheet, unregisterSheet is called directly.
SheetOpScope(op) ==
  IF op.kind = "unregister" THEN op.scope
  ELSE IF op.via = "Actors"
       THEN RegisterSheetScope(ActorsRegisterSheetScope(op.scope))
       ELSE RegisterSheetScope(op.scope)

ApplySheetOp(reg, op) ==
  IF op.kind = "register"
  THEN OriginalRegisterSheet(reg, op.doc, SheetOpScope(op), op.cls, op.types,
                             op.makeDefault)
  ELSE OriginalUnregisterSheet(reg, op.doc, SheetOpScope(op), op.cls,
                               op.types)

RECURSIVE ApplySheetOps(_, _)
ApplySheetOps(reg, sops) ==
  IF sops = <<>> THEN reg
  ELSE ApplySheetOps(ApplySheetOp(reg, Head(sops)), Tail(sops))

RECURSIVE SheetOpCalls(_)
SheetOpCalls(sops) ==
  IF sops = <<>> THEN <<>>
  ELSE <<UnderCall(IF Head(sops).kind = "register" THEN "registerSheet"
                   ELSE "unregisterSheet",
                   SheetOpScope(Head(sops)), Head(sops).doc, Head(sops).cls,
                   None)>>
       \o SheetOpCalls(Tail(sops))

\* The same sequence as the helper variant writes it: every call names
\* "dnd5e-2014", and no wrapper stands between the call and the registry.
HelperInitSheetOps ==
  [i \in DOMAIN InitSheetOps |->
     IF InitSheetOps[i].scope = Legacy
     THEN [InitSheetOps[i] EXCEPT !.scope = Canonical]
     ELSE InitSheetOps[i]]

\* The init hook's "Register sheet application classes" block, run once.
InitSheets ==
  /\ ~initSheets
  /\ initSheets' = TRUE
  /\ Invoke(LayerCall("init.sheets", "system", "-", "-", "-"),
            SheetOpCalls(InitSheetOps), None)
  /\ sheets' = ApplySheetOps(sheets, InitSheetOps)
  /\ UNCHANGED <<settingsReg, settingsMenus, settingsVal, flags,
                 worldFlags, lastSet>>

\* A hook name is "<prefix>.<event>"; the event "-" stands for a name with
\* no "." after its first segment.
HookEvents == {"evt", "-"}

\* The operations the layer installs a wrapper over.
WrappedOps ==
  {"settings.get", "settings.set", "settings.register",
   "settings.registerMenu", "getFlag", "setFlag", "unsetFlag",
   "registerSheet", "callAll"}

\* A variant that mirrors the hooks of either identity.
HookIsCanonical_AnyIdentity(prefix, event) ==
  prefix \in Identities /\ event # "-"

\* hook.startsWith('dnd5e-2014.')
HookIsCanonical(prefix, event) == prefix = Canonical /\ event # "-"

\* hook.replace('dnd5e-2014.', 'dnd5e.'), on a name that starts with it.
LegacyHookPrefix(prefix) == IF prefix = Canonical THEN Legacy ELSE prefix

\* A variant that dispatches the legacy hook before the hook it was given.
CallAllDispatches_LegacyFirst(prefix, event, args) ==
  (IF HookIsCanonical(prefix, event)
   THEN <<UnderCall("callAll", LegacyHookPrefix(prefix), event, args, "true")>>
   ELSE <<>>)
  \o <<UnderCall("callAll", prefix, event, args, "true")>>

\* The calls of originalCallAll one call of Hooks.callAll makes, in order.
CallAllDispatches(prefix, event, args) ==
  <<UnderCall("callAll", prefix, event, args, "true")>>
  \o (IF HookIsCanonical(prefix, event)
      THEN <<UnderCall("callAll", LegacyHookPrefix(prefix), event, args,
                       "true")>>
      ELSE <<>>)

\* Hooks.callAll(hook, ...args): returns the result of the first dispatch.
CallAll(prefix, event, args) ==
  LET ds == CallAllDispatches(prefix, event, args)
  IN /\ Step(LayerCall("callAll", "Hooks", prefix, event, args), ds,
             ds[1].ret)
     /\ UNCHANGED <<settingsReg, settingsMenus, settingsVal, flags,
                    worldFlags, sheets, lastSet>>

\* An argument that is no string (undefined, a number) in the place of the
\* namespace, the scope or the hook name.
Malformed == "<no string>"

\* What the original operation does with such an argument: the settings and
\* flag operations throw, registerSheet files the sheet under the id it
\* builds from it, Hooks.callAll finds no listener and returns true.
OriginalOnMalformed(op) ==
  CASE op \in {"settings.get", "settings.set", "settings.register",
               "settings.registerMenu", "getFlag", "setFlag", "unsetFlag"}
         -> "error"
    [] op = "registerSheet" -> None
    [] op = "callAll" -> "true"

\* What the wrapper of the operation returns: the settings, flag and sheet
\* wrappers compare with === and return the original's result; the wrapper
\* of Hooks.callAll goes on to hook.startsWith(...), which is not a function
\* of such a value, and throws a TypeError after the original dispatch.
WrapperOnMalformed(op) ==
  IF op = "callAll" THEN "TypeError" ELSE OriginalOnMalformed(op)

\* The receiver and the other arguments of the calls made with it.
MalformedInputs(op) ==
  CASE op \in {"settings.get", "settings.register", "settings.registerMenu"}
         -> {<<"game", k, "-">> : k \in Keys}
    [] op = "settings.set" -> {<<"game", k, "a">> : k \in Keys}
    [] op \in {"getFlag", "unsetFlag"} -> {<<e, "k1", "-">> : e \in Entities}
    [] op = "setFlag" -> {<<e, "k1", "a">> : e \in Entities}
    [] op = "registerSheet" ->
         {<<"DocumentSheetConfig", "Actor", sh>> : sh \in SheetClasses}
    [] op = "callAll" -> {<<"Hooks", "-", v>> : v \in Values}

\* A call of a wrapped operation with such an argument.
MalformedCall(op, in) ==
  /\ Step(LayerCall(op, in[1], Malformed, in[2], in[3]),
          <<UnderCall(op, Malformed, in[2], in[3], OriginalOnMalformed(op))>>,
          WrapperOnMalformed(op))
  /\ sheets' = IF op = "registerSheet"
               THEN OriginalRegisterSheet(sheets, in[2], Malformed, in[3],
                                          AllTypes, FALSE)
               ELSE sheets
  /\ UNCHANGED <<settingsReg, settingsMenus, settingsVal, flags,
                 worldFlags, lastSet>>

\* The gate's variables while the layer alone is exercised.
GateIdle ==
  /\ isGM = FALSE
  /\ setting = NoVersion
  /\ worldVersion = NoVersion
  /\ actors = 0 /\ scenes = 0 /\ items = 0
  /\ sysVersion = MaxVersion
  /\ needsVersion = MaxVersion
  /\ compatVersion = MaxVersion
  /\ readyRegistered = TRUE
  /\ emits = 0
  /\ calls = <<>>
  /\ gate = NoGate
  /\ run = IdleRun

ProxyInit == GateIdle /\ ProxyStart /\ RefIdle /\ HelperIdle

ProxyNext ==
  \/ \E m \in Namespaces, k \in Keys : SettingsGet(m, k)
  \/ \E m \in Namespaces, k \in Keys, v \in Values : SettingsSet(m, k, v)
  \/ \E m \in Namespaces, k \in Keys : SettingsRegister(m, k)
  \/ \E m \in Namespaces, k \in Keys : SettingsRegisterMenu(m, k)
  \/ \E e \in Entities, sc \in Namespaces, k \in Keys : GetFlag(e, sc, k)
  \/ \E e \in Entities, sc \in Namespaces, k \in Keys, v \in Values :
       SetFlag(e, sc, k, v)
  \/ \E e \in Entities, sc \in Namespaces, k \in Keys : UnsetFlag(e, sc, k)
  \/ \E n \in Namespaces : WorldFlagsRead(n)
  \/ \E n \in Namespaces, v \in Values : WorldFlagsWrite(n, v)
  \/ \E d \in DocTypes, sc \in Namespaces, sh \in SheetClasses,
          md \in BOOLEAN : RegisterSheet(d, sc, sh, md)
  \/ \E d \in DocTypes, sc \in Namespaces, sh \in SheetClasses :
       UnregisterSheet(d, sc, sh)
  \/ InitSheets
  \/ \E sc \in Namespaces, sh \in SheetClasses : ActorsRegisterSheet(sc, sh)
  \/ \E n \in Namespaces, ev \in HookEvents, v \in Values : CallAll(n, ev, v)
  \/ \E op \in WrappedOps : \E in \in MalformedInputs(op) :
       MalformedCall(op, in)

SpecProxy == ProxyInit /\ [][ProxyNext]_vars

(***************************************************************************)
(* The compendium lookup of the helper variant, on one reference.          *)
(***************************************************************************)
\* game.dnd5e.findCompendiumEntry(ref) runs to its return.
FindCompendiumEntry ==
  /\ refPc = "idle"
  /\ LET r == findCompendiumEntry(packDocs, ref)
     IN /\ lookups' = r.lookups
        /\ found' = r.document
  /\ refPc' = "found"
  /\ UNCHANGED <<ref, packDocs, config, configIn>>
  /\ UNCHANGED <<gateVars, proxyVars, helperVars>>

LookupInit == GateIdle /\ ProxyStart /\ LookupInputs /\ HelperIdle
LookupNext == FindCompendiumEntry
SpecLookup == LookupInit /\ [][LookupNext]_vars

(***************************************************************************)
(* The reference rewriting of the helper variant, on one object.           *)
(***************************************************************************)
\* resolveDynamicReferences(DND5E) runs to its return.
ResolveDynamicReferences ==
  /\ refPc = "idle"
  /\ config' = resolveDynamicReferences(config)
  /\ refPc' = "resolved"
  /\ UNCHANGED <<ref, packDocs, lookups, found, configIn>>
  /\ UNCHANGED <<gateVars, proxyVars, helperVars>>

RewriteInit == GateIdle /\ ProxyStart /\ RewriteInputs /\ HelperIdle
RewriteNext == ResolveDynamicReferences
SpecRewrite == RewriteInit /\ [][RewriteNext]_vars

(***************************************************************************)
(* The two rewritings applied again to what they returned.                 *)
(***************************************************************************)
\* resolveDynamicReferences(DND5E) called once more on the object it has
\* rewritten.
ResolveDynamicReferencesAgain ==
  /\ refPc = "resolved"
  /\ config' = resolveDynamicReferences(config)
  /\ refPc' = "resolved-again"
  /\ UNCHANGED <<ref, packDocs, lookups, found, configIn>>
  /\ UNCHANGED <<gateVars, proxyVars, helperVars>>

\* game.dnd5e.getCompendiumReference(ref) runs to its return.
GetCompendiumReference ==
  /\ refPc = "idle" /\ ref # NoPath
  /\ found' = getCompendiumReference(ref)
  /\ refPc' = "referenced"
  /\ UNCHANGED <<ref, packDocs, lookups, config, configIn>>
  /\ UNCHANGED <<gateVars, proxyVars, helperVars>>

\* game.dnd5e.getCompendiumReference called once more on the path it has
\* returned.
GetCompendiumReferenceAgain ==
  /\ refPc = "referenced"
  /\ found' = getCompendiumReference(found)
  /\ refPc' = "referenced-again"
  /\ UNCHANGED <<ref, packDocs, lookups, config, configIn>>
  /\ UNCHANGED <<gateVars, proxyVars, helperVars>>

\* One path, or one object.
AgainInputs ==
  \/ /\ ref \in Paths
     /\ packDocs = {}
     /\ lookups = <<>>
     /\ found = NoPath
     /\ config = EmptyTree
     /\ configIn = EmptyTree
     /\ refPc = "idle"
  \/ RewriteInputs

AgainInit == GateIdle /\ ProxyStart /\ AgainInputs /\ HelperIdle
AgainNext ==
  \/ ResolveDynamicReferences
  \/ ResolveDynamicReferencesAgain
  \/ GetCompendiumReference
  \/ GetCompendiumReferenceAgain
SpecAgain == AgainInit /\ [][AgainNext]_vars

(***************************************************************************)
(* The helper variant: init adds helpers and leaves the shared operations  *)
(* of the platform as they are.                                            *)
(***************************************************************************)
\* A variant whose init installs a redirecting proxy over every shared
\* operation, as the proxy variant does.
InitPlatform_InstallsProxies(pf) == [op \in PlatformOps |-> "proxy"]

\* What the init hook of src/dnd5e.mjs assigns to the shared operations:
\* nothing, each stays the function it was.
InitPlatform(pf) == pf

\* The namespace with which a call reaches the original operation, given
\* the function installed for the operation.
Reach(impl, ns) == IF impl = "proxy" /\ ns = Legacy THEN Canonical ELSE ns

\* Hooks.once("init") of src/dnd5e.mjs, lines 74-187: the helpers are added
\* once, the flag helpers only when Document.prototype has no getDnd5eFlag.
HelperInit ==
  /\ ~helperInit
  /\ helperInit' = TRUE
  /\ IF compatAdded THEN UNCHANGED <<helpers, protoOwner>>
     ELSE /\ helpers' = helpers \cup SystemHelpers
                        \cup (IF protoOwner = "none" THEN FlagHelpers ELSE {})
          /\ protoOwner' = IF protoOwner = "none" THEN "system" ELSE protoOwner
  /\ compatAdded' = TRUE
  /\ platform' = InitPlatform(platform)
  /\ UNCHANGED <<gateVars, proxyVars, refVars>>

\* The receiver and the arguments after the namespace of the calls made on
\* each shared operation (flags on a document without a flags data model).
PlatformInputs(op) ==
  CASE op \in {"settings.get", "settings.register", "settings.registerMenu"}
         -> {<<"game", k, "-">> : k \in Keys}
    [] op = "settings.set" -> {<<"game", k, v>> : k \in Keys, v \in Values}
    [] op \in {"getFlag", "unsetFlag"} -> {<<"journal", k, "-">> : k \in Keys}
    [] op = "setFlag" -> {<<"journal", k, v>> : k \in Keys, v \in Values}
    [] op = "callAll" -> {<<"Hooks", ev, "a">> : ev \in HookEvents}
    [] op \in {"registerSheet", "unregisterSheet"}
         -> {<<"DocumentSheetConfig", "Actor", sh>> : sh \in SheetClasses}

\* One call of a shared operation through the function installed for it,
\* recorded as the call c.
PlatformStep(c, op, who, ns, key, value) ==
  LET n == Reach(platform[op], ns)
      r == CASE op = "settings.get" -> OriginalGet(n, key)
             [] op = "settings.set" -> OriginalSet(n, key, value)
             [] op = "getFlag" -> flags[who][n].vals[key]
             [] op \in {"setFlag", "unsetFlag"} -> "ok"
             [] op = "callAll" -> "true"
             [] OTHER -> None
  IN /\ Invoke(c, <<UnderCall(op, n, key, value, r)>>, r)
     /\ settingsReg' = IF op = "settings.register"
                       THEN settingsReg \cup {<<n, key>>} ELSE settingsReg
     /\ settingsMenus' = IF op = "settings.registerMenu"
                         THEN settingsMenus \cup {<<n, key>>}
                         ELSE settingsMenus
     /\ settingsVal' = IF op = "settings.set" /\ r # "error"
                       THEN [settingsVal EXCEPT ![<<n, key>>] = value]
                       ELSE settingsVal
     /\ flags' = IF op = "setFlag"
                 THEN [flags EXCEPT ![who][n] = ApplyUpdate(@, {<<key, value>>})]
                 ELSE IF op = "unsetFlag"
                 THEN [flags EXCEPT ![who][n].vals[key] = None]
                 ELSE flags
     /\ sheets' = IF op = "registerSheet"
                  THEN OriginalRegisterSheet(sheets, key, n, value, AllTypes,
                                             FALSE)
                  ELSE IF op = "unregisterSheet"
                  THEN OriginalUnregisterSheet(sheets, key, n, value, AllTypes)
                  ELSE sheets
     /\ UNCHANGED <<worldFlags, lastSet, initSheets, helperVars>>

\* A module (or the system) calls a shared operation with a namespace.
PlatformCall(op, ns, in) ==
  PlatformStep(LayerCall(op, in[1], ns, in[2], in[3]), op, in[1], ns, in[2],
               in[3])

\* The shared operation each helper calls, always with "dnd5e-2014".
HelperTarget(h) ==
  CASE h = "getSetting" -> "settings.get"
    [] h = "setSetting" -> "settings.set"
    [] h = "getDnd5eFlag" -> "getFlag"
    [] h = "setDnd5eFlag" -> "setFlag"
    [] h = "unsetDnd5eFlag" -> "unsetFlag"
CallableHelpers ==
  {"getSetting", "setSetting", "getDnd5eFlag", "setDnd5eFlag",
   "unsetDnd5eFlag"}

\* game.dnd5e.getSetting(key), document.getDnd5eFlag(key) and the like,
\* once init has added them.
HelperCall(h, in) ==
  /\ h \in helpers
  /\ PlatformStep(LayerCall(h, in[1], "-", in[2], in[3]), HelperTarget(h),
                  in[1], Canonical, in[2], in[3])

HelperStart ==
  /\ GateIdle /\ ProxyStart /\ RefIdle
  /\ platform = [op \in PlatformOps |-> "original"]
  /\ helpers = {}
  /\ protoOwner \in {"none", "other"}
  /\ compatAdded = FALSE
  /\ helperInit = FALSE

HelperNext ==
  \/ HelperInit
  \/ \E op \in PlatformOps, ns \in Namespaces :
       \E in \in PlatformInputs(op) : PlatformCall(op, ns, in)
  \/ \E h \in CallableHelpers :
       \E in \in PlatformInputs(HelperTarget(h)) : HelperCall(h, in)

SpecHelper == HelperStart /\ [][HelperNext]_vars

(***************************************************************************)
(* The migration gate: claims C1 to C5.                                    *)
(***************************************************************************)
\* The privileged gate has run in this process.
GateRanAsGM == gate.ran /\ isGM

\* The gate ran on a present stored version older than the minimum
\* migratable version and older than the target version.
GateTooOld ==
  /\ GateRanAsGM
  /\ Truthy(gate.cv)
  /\ gate.cv < compatVersion
  /\ gate.cv < needsVersion

C2_CheckpointPerStep ==
  run.status # "idle" =>
    /\ setting = (IF run.done = 0 THEN run.initial
                  ELSE StepTarget(run.initial, run.done))
    /\ run.status = "failed" =>
         /\ setting < needsVersion
         /\ run.done > 0 => setting # run.initial
    /\ run.status = "done" <=> setting >= needsVersion

C2_Witness ==
  /\ run.status = "failed"
  /\ run.done = 1
  /\ setting = run.initial + 1
  /\ setting + 1 = needsVersion

\* C3: when the stored version is absent and the world holds no actors,
\* scenes or items, the privileged gate writes the current system version as
\* the stored version and returns: no relocation, no warning, no run.
C3_FreshInstallStamps ==
  (GateRanAsGM /\ ~Truthy(gate.cv) /\ gate.total = 0) =>
    /\ calls = <<"Hooks.on", "settings.get", "settings.set">>
    /\ setting = sysVersion
    /\ run.status = "idle"

C3_Witness ==
  /\ GateRanAsGM /\ gate.stored = NoVersion /\ gate.total = 0
  /\ setting = sysVersion
  /\ sysVersion > needsVersion

\* C4: when the stored version is present and not older than the target
\* schema version, the gate is a no-op: the stored version keeps its value
\* and neither the relocation, nor a warning, nor the runner is invoked.
C4_UpToDateNoOp ==
  (GateRanAsGM /\ Truthy(gate.cv) /\ gate.cv >= needsVersion) =>
    /\ calls = <<"Hooks.on", "settings.get">>
    /\ setting = gate.stored
    /\ run.status = "idle"

C4_Witness ==
  /\ GateRanAsGM /\ gate.stored = needsVersion /\ gate.total > 0
  /\ gate.stored < compatVersion

\* C5: for a user who is not the GM the ready handler neither reads nor
\* writes the stored version and invokes neither the relocation, nor the
\* warning, nor the runner, whatever the stored version and the counts are.
C5_NonGMNeverGates ==
  (gate.ran /\ ~isGM) =>
    /\ calls = <<"Hooks.on">>
    /\ setting = gate.stored
    /\ run.status = "idle"

C5_Witness ==
  /\ gate.ran /\ ~isGM
  /\ gate.stored # NoVersion /\ gate.stored < needsVersion
  /\ gate.total > 0

(***************************************************************************)
(* The compatibility layer: claims C6 to C10.                              *)
(***************************************************************************)
\* C6: a value set through game.settings.set under one dnd5e identity is
\* what game.settings.get returns under the other identity (and under the
\* same one), as long as no later set replaces it.
C6_SettingsRoundTrip ==
  \A k \in Keys :
    lastSet[k] # None =>
      /\ WrappedGet(Canonical, k) = lastSet[k]
      /\ WrappedGet(Legacy, k) = lastSet[k]

C6_Witness ==
  /\ call.op = "settings.set" /\ call.ns = Legacy
  /\ ret = call.value
  /\ lastSet[call.key] = call.value
  /\ WrappedGet(Canonical, call.key) = call.value

\* The settings, flag and world flag operations, and those together with the
\* sheet registration: the operations the layer wraps apart from Hooks.callAll.
StoreOps ==
  {"settings.get", "settings.set", "settings.register",
   "settings.registerMenu", "getFlag", "setFlag", "unsetFlag",
   "world.flags.get", "world.flags.set"}
RedirectedOps == StoreOps \cup {"registerSheet"}

\* C7: whatever calls were made, registrations, setting values, flag bags
\* and world flags exist under "dnd5e-2014" only, never under "dnd5e", and
\* no original operation was called with the namespace "dnd5e".
C7_NothingUnderLegacy ==
  /\ \A p \in settingsReg \cup settingsMenus : p[1] # Legacy
  /\ \A k \in Keys : settingsVal[<<Legacy, k>>] = None
  /\ \A e \in Entities : flags[e][Legacy] = EmptyBag
  /\ worldFlags[Legacy] = None
  /\ call.op \in StoreOps => \A i \in 1..Len(under) : under[i].ns # Legacy

C7_Witness ==
  /\ call.op = "setFlag" /\ call.ns = Legacy /\ call.who = "journal"
  /\ flags["journal"][Canonical].vals[call.key] = call.value
  /\ \E k \in Keys : <<Canonical, k>> \in settingsReg

\* What the stores hold under the unrelated namespace.
OtherState ==
  <<{p \in settingsReg : p[1] = Other}, {p \in settingsMenus : p[1] = Other},
    [k \in Keys |-> settingsVal[<<Other, k>>]],
    [e \in Entities |-> flags[e][Other]], worldFlags[Other],
    {<<sh.doc, sh.type, sh.cls>> : sh \in {e \in sheets : e.scope = Other}}>>

\* A call made under an unrelated namespace reaches the original operation
\* with that namespace and its other arguments, and returns its result; a
\* call made under a dnd5e identity reaches "dnd5e-2014" only.
C8_PassThroughState ==
  call.op \in RedirectedOps =>
  /\ call.ns = Other =>
       /\ under # <<>>
       /\ \A i \in 1..Len(under) :
            /\ under[i].ns = Other
            /\ under[i].key = call.key
            /\ under[i].value = call.value
       /\ ret = under[1].ret
  /\ call.ns \in Identities =>
       \A i \in 1..Len(under) : under[i].ns = Canonical

\* A call made under a dnd5e identity leaves what is stored under the
\* unrelated namespace as it was.
C8_PassThroughStep == call'.ns \in Identities => OtherState' = OtherState

\* C8: the settings, flag and sheet registration wrappers pass an unrelated
\* namespace and all other arguments through unchanged and return the
\* original's result; state under unrelated namespaces is never read or
\* written on behalf of a dnd5e call.
C8_PassThrough == []C8_PassThroughState /\ [][C8_PassThroughStep]_vars

C8_Witness ==
  /\ call.op = "setFlag" /\ call.ns = Other /\ call.who = "actor"
  /\ flags["actor"][Other].vals[call.key] = call.value
  /\ flags["actor"][Canonical].has

\* C9 as stated: on a document whose class has a flags data model, setFlag
\* with the scope "dnd5e" does what setFlag with "dnd5e-2014" does: it
\* rejects a value the data model rejects, leaving the flags as they were,
\* and writes the diff of a value the data model accepts.
C9_LegacyScopeValidates ==
  [][(call'.op = "setFlag" /\ call'.ns = Legacy /\ HasFlagsModel(call'.who)) =>
       IF SchemaAccepts(call'.key, call'.value)
       THEN /\ ret' = "ok"
            /\ flags' = [flags EXCEPT ![call'.who][Canonical] =
                           ApplyUpdate(@, FlagDiff(@, call'.key, call'.value))]
       ELSE /\ ret' = "error"
            /\ flags' = flags]_vars

\* C10: a setFlag on the canonical scope of a document with a flags data
\* model that fails validation is rejected: the caller gets the failure,
\* update is never called and every flag keeps its value.
C10_InvalidWriteRejected ==
  [][(/\ call'.op = "setFlag" /\ call'.ns = Canonical
      /\ HasFlagsModel(call'.who)
      /\ ~SchemaAccepts(call'.key, call'.value)) =>
       /\ ret' = "error"
       /\ under' = <<>>
       /\ flags' = flags]_vars

C10_Witness ==
  /\ call.op = "setFlag" /\ call.ns = Canonical /\ call.who = "actor"
  /\ ~SchemaAccepts(call.key, call.value)
  /\ ret = "error"
  /\ flags["actor"][Canonical].has

\* C11: one call of Hooks.callAll with a name "dnd5e-2014.<event>" makes,
\* before it returns, the dispatch under "dnd5e-2014.<event>" first and then
\* exactly one dispatch under "dnd5e.<event>" with the same arguments, and
\* returns the result of the first dispatch.
C11_CanonicalHookMirrored ==
  (call.op = "callAll" /\ call.ns = Canonical /\ call.key # "-") =>
    /\ under = <<UnderCall("callAll", Canonical, call.key, call.value, "true"),
                 UnderCall("callAll", Legacy, call.key, call.value, "true")>>
    /\ ret = under[1].ret

C11_Witness ==
  /\ call.op = "callAll" /\ call.ns = Canonical /\ call.key = "evt"
  /\ Len(under) = 2 /\ under[2].ns = Legacy /\ under[2].value = call.value

\* C12: a call of Hooks.callAll with a name that does not start with
\* "dnd5e-2014." makes exactly one dispatch, under the name it was given, and
\* none under "dnd5e-2014.<event>"; no call makes more than one dispatch
\* under a "dnd5e-2014." name.
C12_NoReverseMirroring ==
  call.op = "callAll" =>
    /\ ~(call.ns = Canonical /\ call.key # "-") =>
         under = <<UnderCall("callAll", call.ns, call.key, call.value,
                             "true")>>
    /\ Cardinality({i \in 1..Len(under) :
                      under[i].ns = Canonical /\ under[i].key # "-"}) <= 1
    /\ \A i \in 1..Len(under) : under[i].op = "callAll"

C12_Witness ==
  /\ call.op = "callAll" /\ call.ns = Legacy /\ call.key = "evt"
  /\ Len(under) = 1 /\ under[1].ns = Legacy

\* The sheets of the system and the subtypes each is to be found under once
\* init has run.
SystemSheets ==
  {<<"Actor", "ActorSheet5eCharacter", {"character"}>>,
   <<"Actor", "ActorSheet5eCharacter2", {"character"}>>,
   <<"Actor", "ActorSheet5eNPC", {"npc"}>>,
   <<"Actor", "ActorSheet5eNPC2", {"npc"}>>,
   <<"Actor", "ActorSheet5eVehicle", {"vehicle"}>>,
   <<"Actor", "GroupActorSheet", {"group"}>>,
   <<"Item", "ItemSheet5e", DocumentTypes("Item") \ {"container"}>>,
   <<"Item", "ContainerSheet", {"container"}>>,
   <<"JournalEntry", "JournalSheet5e", {"base"}>>,
   <<"JournalEntryPage", "JournalClassPageSheet", {"class", "subclass"}>>,
   <<"JournalEntryPage", "JournalMapLocationPageSheet", {"map"}>>,
   <<"JournalEntryPage", "JournalRulePageSheet", {"rule"}>>,
   <<"JournalEntryPage", "JournalSpellListPageSheet", {"spells"}>>,
   <<"TokenDocument", "TokenConfig5e", {"base"}>>}

\* C17: a sheet registered through DocumentSheetConfig.registerSheet or
\* Actors.registerSheet with the scope "dnd5e" is filed under "dnd5e-2014";
\* the registry never holds a sheet under "dnd5e", and once init has run it
\* holds every sheet of the system under "dnd5e-2014".
C17_SheetsFiledCanonical ==
  /\ \A e \in sheets : e.scope # Legacy
  /\ (call.op = "registerSheet" /\ call.ns = Legacy) =>
       /\ \A t \in DocumentTypes(call.key) :
            \E e \in sheets : IsSheet(e, call.key, {t}, Canonical, call.value)
       /\ under[Len(under)] =
            UnderCall("registerSheet", Canonical, call.key, call.value, None)
  /\ initSheets =>
       \A sy \in SystemSheets : \A t \in sy[3] :
         \E e \in sheets : IsSheet(e, sy[1], {t}, Canonical, sy[2])

C17_Witness ==
  /\ initSheets
  /\ call.op = "registerSheet" /\ call.ns = Legacy /\ call.who = "Actors"
  /\ \E e \in sheets : e.cls = "TokenConfig5e" /\ e.scope = Canonical

\* C18 as stated: unregisterSheet with the scope "dnd5e" removes what
\* unregisterSheet with "dnd5e-2014" removes, the registration of the sheet
\* filed under "dnd5e-2014", and leaves the registry as it was when there is
\* no such registration.
C18_UnregisterCanonicalizes ==
  [][(call'.op = "unregisterSheet" /\ call'.ns \in Identities) =>
       sheets' = OriginalUnregisterSheet(sheets, call'.key, Canonical,
                                         call'.value, AllTypes)]_vars

\* C19 as stated: the version the gate decides on is the
\* systemMigrationVersion setting when that is non-empty and otherwise the
\* version held in the world flags: with an empty setting and a world
\* version W the gate makes the calls it makes for a stored version W.
C19_WorldVersionFallback ==
  GateRanAsGM =>
    /\ gate.stored # NoVersion => gate.cv = gate.stored
    /\ (gate.stored = NoVersion /\ worldVersion # NoVersion) =>
         /\ gate.cv = worldVersion
         /\ calls = <<"Hooks.on">>
                    \o GateCalls(worldVersion, gate.total, needsVersion,
                                 compatVersion)

\* C20: the too-old warning is raised exactly when the privileged gate runs
\* on a present stored version (the systemMigrationVersion setting) older
\* than the minimum migratable version and older than the target version; it
\* is raised at most once per process start, the handler goes on to the
\* migration runner after it, and no other outcome of the gate (fresh
\* install, up to date, absent stored version, non-GM user) raises it.
C20_TooOldWarningExactly ==
  /\ Has(calls, "notifications.error") <=> GateTooOld
  /\ Count(calls, "notifications.error") <= 1
  /\ Has(calls, "notifications.error") =>
       /\ calls[Len(calls)] = "migrateWorld"
       /\ run.status # "idle"
  /\ (gate.ran /\ ~Truthy(gate.cv)) => ~Has(calls, "notifications.error")

C20_Witness ==
  /\ GateTooOld /\ ~NeedsReparent(gate.cv)
  /\ Count(calls, "notifications.error") = 1
  /\ calls[Len(calls)] = "migrateWorld"

\* The path with its second segment, the system id, changed.
WithSystem(path, id) == [path EXCEPT ![2] = id]

\* C13: for a reference "Compendium.dnd5e-2014.<rest>" findCompendiumEntry
\* looks up the canonical path first and, only when that misses, the legacy
\* path "Compendium.dnd5e.<rest>"; it returns the first hit and returns the
\* empty result when both miss.
C13_CanonicalThenLegacy ==
  (refPc = "found" /\ StartsWithCompendium(ref, Canonical)) =>
    IF ref \in packDocs
    THEN lookups = <<ref>> /\ found = ref
    ELSE /\ lookups = <<ref, WithSystem(ref, Legacy)>>
         /\ found = (IF WithSystem(ref, Legacy) \in packDocs
                     THEN WithSystem(ref, Legacy) ELSE NoPath)

C13_Witness ==
  /\ refPc = "found" /\ StartsWithCompendium(ref, Canonical)
  /\ ref \notin packDocs
  /\ found = WithSystem(ref, Legacy)

\* C14 as stated: for a reference "Compendium.dnd5e.<rest>" findCompendiumEntry
\* looks up the canonical path "Compendium.dnd5e-2014.<rest>" first and, when
\* that misses, the alias path "Compendium.dnd5e.<rest>", so that an entity
\* stored under the alias path only is returned.
C14_LegacyReferenceFallsBack ==
  (refPc = "found" /\ StartsWithCompendium(ref, Legacy)) =>
    IF WithSystem(ref, Canonical) \in packDocs
    THEN lookups = <<WithSystem(ref, Canonical)>>
         /\ found = WithSystem(ref, Canonical)
    ELSE /\ lookups = <<WithSystem(ref, Canonical), ref>>
         /\ found = (IF ref \in packDocs THEN ref ELSE NoPath)

\* The values of two objects correspond: same kind, same keys, and every
\* pair of values under the same key related by R.
RECURSIVE SameShape(_, _)
SameShape(before, after) ==
  /\ after.kind = before.kind
  /\ after.keys = before.keys
  /\ Len(after.kids) = Len(before.kids)
  /\ (before.kind \notin {"map", "seq"} => after.kids = <<>>)
  /\ \A i \in 1..Len(before.kids) : SameShape(before.kids[i], after.kids[i])

\* Every legacy reference of `before`, at any depth, is in `after` the same
\* string with "Compendium.<system id>." for its prefix.
RECURSIVE ReferencesRewritten(_, _)
ReferencesRewritten(before, after) ==
  \A i \in 1..Len(before.kids) :
    LET b == before.kids[i]
        a == after.kids[i]
    IN /\ (b.kind = "string" /\ Len(b.str) >= 3
           /\ SubSeq(b.str, 1, 2) = <<"Compendium", Legacy>>) =>
            /\ a.kind = "string"
            /\ a.str = <<"Compendium", SystemId>> \o SubSeq(b.str, 3, Len(b.str))
       /\ b.kind \in {"map", "seq"} => ReferencesRewritten(b, a)

\* Every value of `before` that is not a legacy reference, at any depth, is
\* the same in `after`.
RECURSIVE OthersPreserved(_, _)
OthersPreserved(before, after) ==
  \A i \in 1..Len(before.kids) :
    LET b == before.kids[i]
        a == after.kids[i]
    IN IF b.kind \in {"map", "seq"} THEN OthersPreserved(b, a)
       ELSE (~(b.kind = "string" /\ Len(b.str) >= 3
               /\ SubSeq(b.str, 1, 2) = <<"Compendium", Legacy>>)) => a = b

\* The nesting depth of an object.
RECURSIVE Depth(_)
Depth(node) ==
  IF node.kind \notin {"map", "seq"} THEN 0
  ELSE 1 + (IF node.kids = <<>> THEN 0
            ELSE LET ds == {Depth(node.kids[i]) : i \in 1..Len(node.kids)}
                 IN CHOOSE d \in ds : \A e \in ds : e <= d)

\* C15: resolveDynamicReferences returns, and after it every string value
\* that began with "Compendium.dnd5e.", at every nesting depth, is the same
\* string with the prefix "Compendium.<system id>." and the rest as it was.
C15_LegacyReferencesRewritten ==
  refPc = "resolved" =>
    /\ SameShape(configIn, config)
    /\ ReferencesRewritten(configIn, config)

C15_Witness ==
  /\ refPc = "resolved"
  /\ Depth(configIn) = MaxDepth
  /\ Len(configIn.kids) = 2
  /\ configIn.kids[1].kind = "map"
  /\ configIn.kids[1].kids[1].str = <<"Compendium", Legacy, "pack">>
  /\ config.kids[1].kids[1].str = <<"Compendium", Canonical, "pack">>
  /\ configIn.kids[2].kind = "seq"
  /\ Len(configIn.kids[2].kids) = 2
  /\ configIn.kids[2].kids[2].str = <<"Compendium", Legacy, "Compendium", Legacy>>
  /\ config.kids[2].kids[2].str = <<"Compendium", Canonical, "Compendium", Legacy>>

\* C16: resolveDynamicReferences changes legacy references only: a string
\* that does not begin with "Compendium.dnd5e." (a canonical reference, a
\* string with the pattern past its start), a value that is not a string,
\* the keys and the shape of the object are after the call what they were.
C16_OnlyLegacyReferencesChange ==
  refPc = "resolved" =>
    /\ SameShape(configIn, config)
    /\ OthersPreserved(configIn, config)

C16_Witness ==
  /\ refPc = "resolved"
  /\ config # configIn
  /\ Len(configIn.kids) = 2
  /\ configIn.kids[1] = Leaf("string", <<"pack", "Compendium", Legacy, "pack">>)
  /\ config.kids[1] = configIn.kids[1]
  /\ configIn.kids[2].kind = "map"
  /\ Len(configIn.kids[2].kids) = 2
  /\ configIn.kids[2].kids[1] = Leaf("string", <<"Compendium", Canonical, "pack">>)
  /\ config.kids[2].kids[1] = configIn.kids[2].kids[1]
  /\ configIn.kids[2].kids[2] = Leaf("string", <<"Compendium", Legacy, "pack">>)

\* The position of the first call c in a sequence of calls (0 when absent).
IndexOf(seq, c) ==
  IF Has(seq, c) THEN CHOOSE n \in 1..Len(seq) :
                        seq[n] = c /\ \A m \in 1..(n - 1) : seq[m] # c
  ELSE 0

C24_GateOncePerStart ==
  [][(~readyRegistered /\ ~readyRegistered') =>
       /\ calls' = calls
       /\ gate' = gate
       /\ Count(calls', "migrateWorld") <= 1
       /\ run'.initial = run.initial
       /\ run'.done >= run.done
       /\ run'.status = "running" => run.status = "running"]_vars

C24_Witness ==
  /\ ~readyRegistered /\ emits = MaxEmits
  /\ run.status = "running" /\ run.done = 1
  /\ Count(calls, "migrateWorld") = 1

\* C28: when the stored version is absent and the world holds at least one
\* actor, scene or item, the privileged gate migrates: it invokes the
\* migration runner exactly once, raises no too-old warning, relocates
\* nothing and does not write the stored version itself.
C28_AbsentWithDocumentsMigrates ==
  (GateRanAsGM /\ ~Truthy(gate.cv) /\ gate.total > 0) =>
    /\ calls = <<"Hooks.on", "settings.get", "migrateWorld">>
    /\ run.status # "idle"
    /\ run.initial = gate.stored

C28_Witness ==
  /\ GateRanAsGM /\ gate.stored = NoVersion /\ gate.total > 0
  /\ run.status = "running" /\ run.done = 0
  /\ setting = NoVersion

\* In the helper variant every shared operation is the function it was, a
\* call of one reaches the original with the namespace and the arguments as
\* written and returns its result, and what init added are helpers only.
C21_PlatformUntouchedState ==
  /\ \A op \in PlatformOps : platform[op] = "original"
  /\ helpers \subseteq SystemHelpers \cup FlagHelpers
  /\ helpers \cap PlatformOps = {}
  /\ call.op \in PlatformOps =>
       under = <<UnderCall(call.op, call.ns, call.key, call.value, ret)>>
  /\ (call.op = "settings.register" /\ call.ns = Legacy) =>
       <<Legacy, call.key>> \in settingsReg
  /\ (call.op = "setFlag" /\ call.ns = Legacy) =>
       flags[call.who][Legacy].vals[call.key] = call.value

\* The init hook changes neither a shared operation nor what the stores
\* hold, and a getDnd5eFlag another party defined stays that party's.
C21_PlatformUntouchedStep ==
  /\ (helperInit' /\ ~helperInit) =>
       /\ platform' = platform
       /\ UNCHANGED <<settingsReg, settingsMenus, settingsVal, flags, sheets>>
  /\ protoOwner = "other" =>
       /\ protoOwner' = "other"
       /\ helpers' \cap FlagHelpers = {}

\* C21: in the helper variant init replaces none of the shared platform
\* operations: after init they behave as before it, a call with the
\* namespace "dnd5e" reaches the original operation with "dnd5e"; the layer
\* only adds helpers and leaves an already present
\* Document.prototype.getDnd5eFlag in place.
C21_HelperVariantReplacesNothing ==
  []C21_PlatformUntouchedState /\ [][C21_PlatformUntouchedStep]_vars

C21_Witness ==
  /\ helperInit /\ protoOwner = "other" /\ "getSetting" \in helpers
  /\ call.op = "settings.set" /\ call.ns = Legacy
  /\ ret = call.value
  /\ settingsVal[<<Legacy, call.key>>] = call.value
  /\ settingsVal[<<Canonical, call.key>>] = None

\* C25: on a document with a flags data model that already has flags under
\* "dnd5e-2014", an accepted setFlag("dnd5e-2014", key, value) writes the
\* diff only: every other field of the scope, every other scope and every
\* other document keep their values, the field under key gets the value, and
\* the update carries no field when the value is the one already stored.
C25_OnlyDiffPersisted ==
  [][(/\ call'.op = "setFlag" /\ call'.ns = Canonical
      /\ HasFlagsModel(call'.who)
      /\ flags[call'.who][Canonical].has
      /\ SchemaAccepts(call'.key, call'.value)) =>
       /\ \A e \in Entities, n \in Namespaces, k \in Keys :
            <<e, n, k>> # <<call'.who, Canonical, call'.key>> =>
              flags'[e][n].vals[k] = flags[e][n].vals[k]
       /\ flags'[call'.who][Canonical].vals[call'.key] = call'.value
       /\ Len(under') = 1 /\ under'[1].op = "update"
       /\ under'[1].value =
            (IF flags[call'.who][Canonical].vals[call'.key] = call'.value
             THEN None ELSE call'.value)]_vars

C25_Witness ==
  /\ call.op = "setFlag" /\ call.ns = Canonical /\ call.who = "actor"
  /\ call.key = "k1" /\ call.value = "b"
  /\ flags["actor"][Canonical].vals["k2"] = "a"
  /\ flags["actor"][Canonical].vals["k1"] = "b"
  /\ under = <<UnderCall("update", Canonical, "k1", "b", "ok")>>

\* C26 as stated: a call of a redirection wrapper with a namespace, scope or
\* hook name that is no well-formed identifier string reaches the original
\* operation exactly once, with the arguments as given, and returns the
\* original's result; the wrapper raises no error of its own.
C26_MalformedForwarded ==
  (call.op \in WrappedOps /\ call.ns = Malformed) =>
    /\ under = <<UnderCall(call.op, Malformed, call.key, call.value,
                           OriginalOnMalformed(call.op))>>
    /\ ret = under[1].ret

\* The registrations of the init sequence made with makeDefault = true for
\* one subtype of one document class, by their position in the sequence.
DefaultRegs(doc, t) ==
  {i \in DOMAIN InitSheetOps :
     /\ InitSheetOps[i].kind = "register" /\ InitSheetOps[i].makeDefault
     /\ InitSheetOps[i].doc = doc
     /\ t \in TypesOf(doc, InitSheetOps[i].types)}
LastDefaultReg(doc, t) ==
  CHOOSE i \in DefaultRegs(doc, t) : \A j \in DefaultRegs(doc, t) : j <= i

\* The entries of the registry that hold the default of one pair.
DefaultsOf(reg, doc, t) ==
  {e \in reg : e.doc = doc /\ e.type = t /\ e.default}

\* The defaults the actor and item subtypes are to have once init has run.
ExpectedDefaults ==
  {<<"Actor", "character", "ActorSheet5eCharacter2">>,
   <<"Actor", "npc", "ActorSheet5eNPC2">>,
   <<"Actor", "vehicle", "ActorSheet5eVehicle">>,
   <<"Actor", "group", "GroupActorSheet">>,
   <<"Item", "container", "ContainerSheet">>,
   <<"Item", "weapon", "ItemSheet5e">>}

\* C27: right after the init hook's sheet registration sequence, every
\* actor and item subtype has exactly one default sheet, the one of the last
\* registration the sequence made for it with makeDefault = true
\* (ActorSheet5eCharacter2 for character, ActorSheet5eNPC2 for npc,
\* ContainerSheet for container, ItemSheet5e for the other item subtypes),
\* ItemSheet5e is not registered for the container subtype, and no actor
\* or item subtype ever has two defaults; the sequence written with
\* "dnd5e-2014" throughout and applied without wrappers gives the same
\* registry.
C27_DefaultsState ==
  /\ \A d \in DocTypes : \A t \in DocumentTypes(d) :
       Cardinality(DefaultsOf(sheets, d, t)) <= 1
  /\ call.op = "init.sheets" =>
       /\ \A d \in {"Actor", "Item"} : \A t \in DocumentTypes(d) :
            /\ DefaultRegs(d, t) # {}
            /\ DefaultsOf(sheets, d, t) =
                 {SheetEntry(d, t, Canonical,
                             InitSheetOps[LastDefaultReg(d, t)].cls, TRUE)}
       /\ \A x \in ExpectedDefaults :
            DefaultsOf(sheets, x[1], x[2]) =
              {SheetEntry(x[1], x[2], Canonical, x[3], TRUE)}
       /\ ~ \E e \in sheets :
              e.doc = "Item" /\ e.type = "container" /\ e.cls = "ItemSheet5e"
C27_DefaultsStep ==
  call'.op = "init.sheets" =>
    sheets' = ApplySheetOps(sheets, HelperInitSheetOps)
C27_OneDefaultPerSubtype ==
  []C27_DefaultsState /\ [][C27_DefaultsStep]_vars

\* Init ran after a module had made its own sheet the default of the actor
\* subtypes.
C27_Witness ==
  /\ call.op = "init.sheets"
  /\ \E e \in sheets :
       /\ e.doc = "Actor" /\ e.type = "character" /\ ~e.default
       /\ e.scope = Other
  /\ DefaultsOf(sheets, "Item", "container") =
       {SheetEntry("Item", "container", Canonical, "ContainerSheet", TRUE)}

\* The path with the running system's prefix and the same rest when it is
\* prefixed with either identity, the path itself otherwise.
WithSystemPrefix(path) ==
  IF \E id \in Identities : StartsWithCompendium(path, id)
  THEN <<"Compendium", SystemId>> \o SubSeq(path, 3, Len(path))
  ELSE path

\* C29: reference rewriting is idempotent. A second resolveDynamicReferences
\* on a rewritten object changes nothing, so that after either the object
\* has the shape of the object given and each of its legacy references with
\* the running system for its prefix; getCompendiumReference of a path it returned returns the same
\* path; the path it returns for a path prefixed with either identity
\* carries the running system's prefix and the same rest, and any other
\* path is returned unchanged.
C29_RewrittenState ==
  /\ refPc \in {"referenced", "referenced-again"} =>
       found = WithSystemPrefix(ref)
  /\ refPc \in {"resolved", "resolved-again"} =>
       /\ SameShape(configIn, config)
       /\ ReferencesRewritten(configIn, config)
C29_AgainStep ==
  /\ refPc' = "resolved-again" => config' = config
  /\ refPc' = "referenced-again" => found' = found
C29_RewritingIdempotent ==
  []C29_RewrittenState /\ [][C29_AgainStep]_vars

\* A legacy reference was converted and the conversion applied again.
C29_Witness ==
  /\ refPc = "referenced-again"
  /\ StartsWithCompendium(ref, Legacy) /\ Len(ref) = MaxPathLen
  /\ found # ref
  /\ found[3] = "Compendium" /\ found[4] = Legacy

====
